---- MODULE Spec2Model ----
(***************************************************************************)
(* State-machine model of the AF_XDP backend of the efhw NIC abstraction   *)
(* (src/src/lib/efhw/af_xdp.c): the umem page directory, the protection    *)
(* domains with their buffer-table accounting, and the per-VI lifecycle    *)
(* (queue init, activation by af_xdp_init, release by queue disable).      *)
(***************************************************************************)
EXTENDS Integers, Sequences, FiniteSets, TLC

(***************************************************************************)
(* Program constants.                                                      *)
(***************************************************************************)
PAGE_SHIFT == 12
PAGE_SIZE == 4096
PtrSize == 8
UMEM_BLOCK == PAGE_SIZE \div PtrSize
MAX_PDS == 256
EFHW_BUFFER_TABLE_BLOCK_SIZE == 32

EINVAL == 22
ENODEV == 19
EBUSY == 16
ENOMEM == 12
ENOSPC == 28
EFAULT == 14

(***************************************************************************)
(* Bounds of the exploration.                                              *)
(***************************************************************************)
\* the page directory of one PD is explored up to this many page slots
MaxPages == 1184
\* buffer_table_set calls explored per PD between two resets
MaxSets == 2
\* largest n_entries passed to buffer_table_set
MaxEntries == 2
\* buffer-table blocks allocated per PD between two resets
MaxBlocks == 2

\* inputs of the buffer-table calls
OwnerIds == {5}
BadOwners == {-1, 256, 257, 16777216}
Orders == {2, 5}
FirstEntries == {0, 31}
DmaAddrs == {1048576, 2097152}
\* distance between the addresses of two entries of one set call
EntryStride == 1024 * PAGE_SIZE
\* the page indexes the fault handler is tried on
FaultPages(pages) ==
  {0, pages.used_page_count - 1, pages.used_page_count} \cap Nat
AllocFails == {"none", "block", "krealloc", "kzalloc1", "kzalloc2"}

VARIABLES
  af_xdp,     \* nic->af_xdp: "null" before init_hardware, "live" after,
              \* "freed" once release_hardware has freed what it points to
  pd,         \* xdp->pd[]: the protection domains, by owner id
  btBlocks,   \* the buffer-table blocks handed out and not yet freed
  lastSet,    \* per PD: page -> handle last written by set since the reset
  setOps,     \* per PD: buffer_table_set calls since the reset
  hist,       \* progress of ScenarioOwner along the scenario, -1 if left
  call,       \* the last call: operation, arguments, return code, effects
  panic,      \* a BUG_ON fired
  vi,         \* xdp->vi[]: the virtual interfaces, by instance
  xskMap,     \* the redirect map: instance -> socket installed, 0 if none
  socks,      \* the AF_XDP socket files created so far
  thr         \* per thread: the buffer-table call it is in the middle of

pdVars == <<pd, btBlocks, lastSet, setOps, hist>>
viVars == <<vi, xskMap, socks>>
vars == <<af_xdp, call, panic, pd, btBlocks, lastSet, setOps, hist,
          vi, xskMap, socks, thr>>

(***************************************************************************)
(* struct umem_pages / struct protection_domain                            *)
(***************************************************************************)
\* a umem_block as kzalloc leaves it: no slot written (every slot NULL)
EmptyBlock == [x \in {} |-> 0]

ZeroUmem ==
  [page_count |-> 0, block_count |-> 0, used_page_count |-> 0,
   blocks |-> <<>>]

ZeroPd ==
  [umem |-> ZeroUmem, buffer_table_count |-> 0,
   freed_buffer_table_count |-> 0]

\* value of a slot of a umem_block (NULL = 0 when never written)
SlotGet(b, off) == IF off \in DOMAIN b THEN b[off] ELSE 0
SlotSet(b, off, addr) == (off :> addr) @@ b

\* number of storage blocks umem_pages_alloc wants for the new total
BlocksFor(pages, new_pages) ==
  (pages.page_count + new_pages + UMEM_BLOCK - 1) \div UMEM_BLOCK

\* the k-th kzalloc of this call fails (k = 0: none fails)
FailIndex(fail) ==
  IF fail = "kzalloc1" THEN 1 ELSE IF fail = "kzalloc2" THEN 2 ELSE 0

RECURSIVE AppendBlocks(_, _)
AppendBlocks(bs, n) ==
  IF n <= 0 THEN bs ELSE AppendBlocks(Append(bs, EmptyBlock), n - 1)

\* umem_pages_alloc updating block_count only once every kzalloc succeeded
UmemPagesAlloc_CountAtEnd(pages, new_pages, fail) ==
  LET blocks == BlocksFor(pages, new_pages)
      need   == blocks - pages.block_count
      k      == FailIndex(fail)
  IN  IF fail = "krealloc"
      THEN [rc |-> -ENOMEM, pages |-> pages]
      ELSE IF k > 0 /\ k <= need
      THEN [rc |-> -ENOMEM,
            pages |-> [pages EXCEPT !.blocks = AppendBlocks(@, k - 1)]]
      ELSE [rc |-> 0,
            pages |-> [pages EXCEPT
                         !.blocks = AppendBlocks(@, need),
                         !.block_count = IF need > 0 THEN @ + need ELSE @,
                         !.page_count = @ + new_pages]]

\* umem_pages_alloc: [rc, pages]
UmemPagesAlloc(pages, new_pages, fail) ==
  LET blocks == BlocksFor(pages, new_pages)
      need   == blocks - pages.block_count
      k      == FailIndex(fail)
  IN  IF fail = "krealloc"
      THEN [rc |-> -ENOMEM, pages |-> pages]
      ELSE IF k > 0 /\ k <= need
      THEN [rc |-> -ENOMEM,
            pages |-> [pages EXCEPT
                         !.blocks = AppendBlocks(@, k - 1),
                         !.block_count = @ + (k - 1)]]
      ELSE [rc |-> 0,
            pages |-> [pages EXCEPT
                         !.blocks = AppendBlocks(@, need),
                         !.block_count = IF need > 0 THEN @ + need ELSE @,
                         !.page_count = @ + new_pages]]

\* umem_pages_addr_ptr: the (block, offset) of a linear page index
AddrBlock(index) == index \div UMEM_BLOCK
AddrOff(index) == index % UMEM_BLOCK

\* umem_pages_set_addr
UmemPagesSetAddr(pages, page, addr) ==
  [pages EXCEPT
     !.blocks[AddrBlock(page) + 1] = SlotSet(@, AddrOff(page), addr),
     !.used_page_count = IF page > @ THEN page ELSE @]

\* umem_pages_get_addr indexing the slot by the block number
UmemPagesGetAddr_BlockAsOffset(pages, page) ==
  SlotGet(pages.blocks[AddrBlock(page) + 1], AddrBlock(page))

\* umem_pages_get_addr
UmemPagesGetAddr(pages, page) ==
  SlotGet(pages.blocks[AddrBlock(page) + 1], AddrOff(page))

SIGSEGV == "VM_FAULT_SIGSEGV"

\* fault: the vm fault handler, for the page index of the faulting address
Fault(pages, page) ==
  IF page >= pages.used_page_count
  THEN [rc |-> SIGSEGV, addr |-> 0]
  ELSE [rc |-> "0", addr |-> UmemPagesGetAddr(pages, page)]

\* pd_by_owner refusing no owner id above the array
PdByOwnerOk_NoUpperTest(owner_id) ==
  ~(af_xdp = "null" \/ owner_id < 0)

\* pd_by_owner: the owner ids that resolve to a PD slot
PdByOwnerOk(owner_id) ==
  ~(af_xdp = "null" \/ owner_id > MAX_PDS \/ owner_id < 0)

\* the owner ids whose slot is one of the MAX_PDS that init_hardware
\* allocates
PdInArray(owner_id) == owner_id \in 0 .. (MAX_PDS - 1)

\* the block handle encodes order | (owner << 8)
HandleOf(owner, order) == order + owner * 256
HandleOwner(handle) == handle \div 256
HandleOrder(handle) == handle % 256

Shl(x, n) == x * (2 ^ n)
Shr(x, n) == x \div (2 ^ n)

(***************************************************************************)
(* struct efhw_af_xdp_vi, the caller's page map, the socket files          *)
(***************************************************************************)
\* number of VI slots (nic->vi_lim)
ViLim == 1
\* socket files that may be created in one run
MaxSocks == 2

Instances == 0 .. (ViLim - 1)
SockIds == 1 .. MaxSocks
RingKinds == <<"rx", "tx", "fr", "cr">>

ZeroRing == [producer |-> 0, consumer |-> 0, desc |-> 0]
ZeroRings == [rx |-> ZeroRing, tx |-> ZeroRing, fr |-> ZeroRing,
              cr |-> ZeroRing]
\* struct efab_af_xdp_offsets
ZeroOffsets == [mmap_bytes |-> 0, rings |-> ZeroRings]
\* struct efhw_page not holding a page
NoPage == [allocated |-> FALSE, offsets |-> ZeroOffsets]
\* struct efhw_af_xdp_vi after kzalloc or memset
ZeroVi ==
  [sock |-> 0, owner_id |-> 0, rxq_capacity |-> 0, txq_capacity |-> 0,
   flags |-> 0, kernel_offsets |-> ZeroOffsets,
   user_offsets_page |-> NoPage]

\* struct efhw_page_map as the caller initialises it
EmptyMap == [n_pages |-> 0, lumps |-> <<>>]
NoSock == [state |-> "unused", inst |-> 0, bound |-> FALSE]

\* x >= lim with the int x converted to the unsigned type of nic->vi_lim:
\* a negative x becomes a value of at least 2^31, above every lim < 2^31
UnsignedGe(x, lim) == x < 0 \/ x >= lim

\* vi_by_instance without the test of nic->af_xdp
ViByInstanceOk_NoNullTest(instance) ==
  ~UnsignedGe(instance, ViLim)

\* vi_by_instance: the instances that resolve to a VI slot
ViByInstanceOk(instance) ==
  ~(af_xdp = "null" \/ UnsignedGe(instance, ViLim))

(***************************************************************************)
(* Initialisation                                                          *)
(***************************************************************************)
\* the threads that make buffer-table calls side by side, and a thread
\* that is in no call
Threads == {1, 2}
NoBlock == [handle |-> 0, btb_vaddr |-> 0]
IdleThread == [pc |-> "idle", op |-> "none", order |-> 0, block |-> NoBlock,
               blocks |-> 0, reg |-> 0, reset |-> FALSE, from |-> ZeroPd]

\* a call made from start to end with no other call in flight, on a backend
\* on which no BUG_ON has fired and which release_hardware has not freed
CallAlone ==
  /\ ~panic
  /\ af_xdp # "freed"
  /\ \A t \in Threads : thr[t].pc \in {"idle", "done"}
  /\ thr' = thr

Init ==
  /\ af_xdp = "null"
  /\ pd = [o \in OwnerIds |-> ZeroPd]
  /\ btBlocks = {}
  /\ lastSet = [o \in OwnerIds |-> EmptyBlock]
  /\ setOps = [o \in OwnerIds |-> 0]
  /\ hist = 0
  /\ call = [op |-> "none"]
  /\ panic = FALSE
  /\ vi = [i \in Instances |-> ZeroVi]
  /\ xskMap = [i \in Instances |-> 0]
  /\ socks = [f \in SockIds |-> NoSock]
  /\ thr = [t \in Threads |-> IdleThread]

InitFails == {"none", "kzalloc", "map_create", "prog_load", "prog_get",
              "set_link"}

\* af_xdp_nic_init_hardware: on success the zeroed VI and PD arrays and the
\* redirect map become reachable from the nic
InitHardware ==
  /\ CallAlone
  /\ af_xdp = "null"
  /\ \E fail \in InitFails :
       /\ af_xdp' = IF fail = "none" THEN "live" ELSE "null"
       /\ call' = [op |-> "init_hardware",
                   rc |-> IF fail = "none" THEN 0
                          ELSE IF fail = "kzalloc" THEN -ENOMEM
                          ELSE -EINVAL]
  /\ UNCHANGED <<panic, pdVars, viVars>>

(***************************************************************************)
(* The scenario "allocate two order-2 blocks, then free both" on           *)
(* ScenarioOwner: hist counts the calls of the scenario made so far, from  *)
(* the pristine PD, and is -1 once any other buffer-table call was made.   *)
(***************************************************************************)
Scenario ==
  [owner |-> 5, order |-> 2, capacity |-> 128,
   calls |-> <<"alloc", "alloc", "free", "free">>]
ScenarioOwner == Scenario.owner
ScenarioOrder == Scenario.order
HistAdd(h, owner, e) ==
  IF owner # ScenarioOwner THEN h
  ELSE IF /\ h >= 0 /\ h < Len(Scenario.calls)
          /\ e.op = Scenario.calls[h + 1]
          /\ e.order = ScenarioOrder /\ e.rc = 0
  THEN h + 1
  ELSE -1

(***************************************************************************)
(* Buffer table                                                            *)
(***************************************************************************)
\* the PD an owner id resolves to (PDs no call of the model touches stay as
\* kzalloc left them)
PdSlot(owner) == IF owner \in DOMAIN pd THEN pd[owner] ELSE ZeroPd

\* af_xdp_nic_buffer_table_alloc handing the block out uncounted
BufferTableAllocOn_Uncounted(p, owner, order, fail) ==
  IF owner >= 2 ^ 24
  THEN [rc |-> -ENOSPC, pd |-> p, blocks |-> {}]
  ELSE IF fail = "block"
  THEN [rc |-> -ENOMEM, pd |-> p, blocks |-> {}]
  ELSE LET block == [handle |-> HandleOf(owner, order),
                     btb_vaddr |-> Shl(p.umem.page_count, PAGE_SHIFT)]
           r == UmemPagesAlloc(p.umem,
                               Shl(EFHW_BUFFER_TABLE_BLOCK_SIZE, order),
                               fail)
       IN  IF r.rc < 0
           THEN [rc |-> r.rc, pd |-> [p EXCEPT !.umem = r.pages],
                 blocks |-> {}]
           ELSE [rc |-> 0, pd |-> [p EXCEPT !.umem = r.pages],
                 blocks |-> {block}]

\* af_xdp_nic_buffer_table_alloc taking btb_vaddr after the growth
BufferTableAllocOn_VaddrAfterGrowth(p, owner, order, fail) ==
  IF owner >= 2 ^ 24
  THEN [rc |-> -ENOSPC, pd |-> p, blocks |-> {}]
  ELSE IF fail = "block"
  THEN [rc |-> -ENOMEM, pd |-> p, blocks |-> {}]
  ELSE LET r == UmemPagesAlloc(p.umem,
                               Shl(EFHW_BUFFER_TABLE_BLOCK_SIZE, order),
                               fail)
           block == [handle |-> HandleOf(owner, order),
                     btb_vaddr |-> Shl(r.pages.page_count, PAGE_SHIFT)]
       IN  IF r.rc < 0
           THEN [rc |-> r.rc, pd |-> [p EXCEPT !.umem = r.pages],
                 blocks |-> {}]
           ELSE [rc |-> 0,
                 pd |-> [p EXCEPT !.umem = r.pages,
                                  !.buffer_table_count = @ + 1],
                 blocks |-> {block}]

\* af_xdp_nic_buffer_table_alloc on a resolved PD p:
\* [rc, pd, blocks], blocks = the block handed to the caller, if any
BufferTableAllocOn(p, owner, order, fail) ==
  IF owner >= 2 ^ 24
  THEN [rc |-> -ENOSPC, pd |-> p, blocks |-> {}]
  ELSE IF fail = "block"
  THEN [rc |-> -ENOMEM, pd |-> p, blocks |-> {}]
  ELSE LET block == [handle |-> HandleOf(owner, order),
                     btb_vaddr |-> Shl(p.umem.page_count, PAGE_SHIFT)]
           r == UmemPagesAlloc(p.umem,
                               Shl(EFHW_BUFFER_TABLE_BLOCK_SIZE, order),
                               fail)
       IN  IF r.rc < 0
           THEN [rc |-> r.rc, pd |-> [p EXCEPT !.umem = r.pages],
                 blocks |-> {}]
           ELSE [rc |-> 0,
                 pd |-> [p EXCEPT !.umem = r.pages,
                                  !.buffer_table_count = @ + 1],
                 blocks |-> {block}]

\* a failure injected into the call happens in it
AllocFailApplies(p, order, fail) ==
  \/ fail \in {"none", "block", "krealloc"}
  \/ /\ FailIndex(fail) > 0
     /\ FailIndex(fail) <=
          BlocksFor(p.umem, Shl(EFHW_BUFFER_TABLE_BLOCK_SIZE, order))
            - p.umem.block_count

\* the outcomes of buffer_table_alloc on memory outside the PD array, whose
\* content is arbitrary
OutsideAllocRcs == {0, -ENOMEM}

\* af_xdp_nic_buffer_table_alloc(owner, order), its allocations failing as
\* fail says
BufferTableAllocCall(owner, order, fail) ==
       IF ~PdByOwnerOk(owner)
       THEN /\ fail = "none"
            /\ call' = [op |-> "buffer_table_alloc", owner |-> owner,
                        order |-> order, rc |-> -ENODEV, slot |-> -1]
            /\ UNCHANGED <<pdVars, panic>>
       ELSE IF owner < 2 ^ 24 /\ ~PdInArray(owner)
       THEN \* &xdp->pd[owner] lies past the array: the call reads and
            \* writes memory it does not own; what follows is not explored
            /\ fail = "none"
            /\ \E rc \in OutsideAllocRcs :
                 call' = [op |-> "buffer_table_alloc", owner |-> owner,
                          order |-> order, rc |-> rc, slot |-> owner]
            /\ panic' = TRUE
            /\ UNCHANGED pdVars
       ELSE /\ PdSlot(owner).umem.page_count
                 + Shl(EFHW_BUFFER_TABLE_BLOCK_SIZE, order) <= MaxPages
            /\ PdSlot(owner).buffer_table_count < MaxBlocks
            /\ AllocFailApplies(PdSlot(owner), order, fail)
            /\ \E r \in {BufferTableAllocOn(PdSlot(owner), owner, order,
                                             fail)} :
                 /\ pd' = IF owner \in DOMAIN pd
                          THEN [pd EXCEPT ![owner] = r.pd]
                          ELSE pd
                 /\ btBlocks' = btBlocks \cup r.blocks
                 /\ call' = [op |-> "buffer_table_alloc", owner |-> owner,
                             order |-> order, rc |-> r.rc, slot |-> owner,
                             fail |-> fail, blocks |-> r.blocks]
                 /\ hist' = HistAdd(hist, owner,
                              [op |-> "alloc", order |-> order,
                               rc |-> r.rc])
            /\ UNCHANGED <<lastSet, setOps, panic>>

BufferTableAlloc ==
  /\ CallAlone
  /\ \E owner \in OwnerIds \cup BadOwners, order \in Orders,
        fail \in AllocFails :
       BufferTableAllocCall(owner, order, fail)
  /\ UNCHANGED <<af_xdp, viVars>>

\* af_xdp_nic_buffer_table_alloc for ScenarioOwner with no allocation failing
BufferTableAllocNoFail ==
  /\ CallAlone
  /\ \E order \in Orders :
       BufferTableAllocCall(ScenarioOwner, order, "none")
  /\ UNCHANGED <<af_xdp, viVars>>

\* xdp_release_pd with the increment made after the comparison
XdpReleasePd_PostIncrement(p) ==
  IF p.freed_buffer_table_count >= p.buffer_table_count
  THEN [panic |-> TRUE, pd |-> p, released |-> FALSE]
  ELSE IF p.freed_buffer_table_count # p.buffer_table_count
  THEN [panic |-> FALSE,
        pd |-> [p EXCEPT !.freed_buffer_table_count = @ + 1],
        released |-> FALSE]
  ELSE [panic |-> FALSE, pd |-> ZeroPd, released |-> TRUE]

\* xdp_release_pd freeing the page directory without the memset of the PD
XdpReleasePd_NoMemset(p) ==
  IF p.freed_buffer_table_count >= p.buffer_table_count
  THEN [panic |-> TRUE, pd |-> p, released |-> FALSE]
  ELSE IF p.freed_buffer_table_count + 1 # p.buffer_table_count
  THEN [panic |-> FALSE,
        pd |-> [p EXCEPT !.freed_buffer_table_count = @ + 1],
        released |-> FALSE]
  ELSE [panic |-> FALSE,
        pd |-> [p EXCEPT !.freed_buffer_table_count = @ + 1,
                         !.umem = ZeroUmem],
        released |-> TRUE]

\* xdp_release_pd: [panic, pd, released], released = umem_pages_free ran
\* (followed by the memset that zeroes the whole PD)
XdpReleasePd(p) ==
  IF p.freed_buffer_table_count >= p.buffer_table_count
  THEN [panic |-> TRUE, pd |-> p, released |-> FALSE]
  ELSE IF p.freed_buffer_table_count + 1 # p.buffer_table_count
  THEN [panic |-> FALSE,
        pd |-> [p EXCEPT !.freed_buffer_table_count = @ + 1],
        released |-> FALSE]
  ELSE [panic |-> FALSE, pd |-> ZeroPd, released |-> TRUE]

\* af_xdp_nic_buffer_table_free
BufferTableFree ==
  /\ CallAlone
  /\ \E block \in btBlocks :
       LET owner == HandleOwner(block.handle)
       IN  /\ btBlocks' = btBlocks \ {block}
           /\ IF ~PdByOwnerOk(owner)
              THEN /\ panic' = TRUE
                   /\ call' = [op |-> "buffer_table_free", owner |-> owner,
                               count |-> 0, released |-> FALSE]
                   /\ UNCHANGED <<pd, lastSet, setOps, hist>>
              ELSE LET r == XdpReleasePd(pd[owner])
                   IN  /\ panic' = r.panic
                       /\ pd' = [pd EXCEPT ![owner] = r.pd]
                       /\ lastSet' = IF r.released
                                     THEN [lastSet EXCEPT ![owner] = EmptyBlock]
                                     ELSE lastSet
                       /\ setOps' = IF r.released
                                    THEN [setOps EXCEPT ![owner] = 0]
                                    ELSE setOps
                       /\ call' = [op |-> "buffer_table_free",
                                   owner |-> owner,
                                   count |-> pd[owner].buffer_table_count,
                                   released |-> r.released]
                       /\ hist' = HistAdd(hist, owner,
                                    [op |-> "free",
                                     order |-> HandleOrder(block.handle),
                                     rc |-> 0])
  /\ UNCHANGED <<af_xdp, viVars>>

\* the write loop not advancing dma_addr from page to page of an entry
SetAddrAt_EntryAddrOnly(dma_addrs, order, k) ==
  dma_addrs[(k \div (2 ^ order)) + 1]

\* the handle stored for the k-th page written by one buffer_table_set call
SetAddrAt(dma_addrs, order, k) ==
  dma_addrs[(k \div (2 ^ order)) + 1] + (k % (2 ^ order)) * PAGE_SIZE

\* the inner loop of af_xdp_nic_buffer_table_set: the pages j .. 2^order - 1
\* of the entry whose first page is the k-th page written by the call
RECURSIVE SetEntryLoop(_, _, _, _, _, _)
SetEntryLoop(pages, page, dma_addrs, order, k, j) ==
  IF j >= 2 ^ order THEN pages
  ELSE LET written == UmemPagesSetAddr(pages, page + k + j,
                                      SetAddrAt(dma_addrs, order, k + j))
       IN  \* the mark is at or above the page just written: the test always
           \* holds and makes TLC evaluate one iteration before the next
           IF written.used_page_count >= page + k + j
           THEN SetEntryLoop(written, page, dma_addrs, order, k, j + 1)
           ELSE written

\* the outer loop of af_xdp_nic_buffer_table_set, entry by entry, from the
\* entry that starts at the k-th page on
RECURSIVE SetLoop(_, _, _, _, _, _)
SetLoop(pages, page, dma_addrs, order, k, total) ==
  IF k >= total THEN pages
  ELSE \* the entry's pages are written before the next entry is begun
       LET done == SetEntryLoop(pages, page, dma_addrs, order, k, 0)
       IN  SetLoop(done, page, dma_addrs, order, k + 2 ^ order, total)

\* the first page computed without the block's base offset
SetFirstPage_NoBase(block, first_entry) ==
  Shl(first_entry, HandleOrder(block.handle))

\* first page addressed by (block, first_entry)
SetFirstPage(block, first_entry) ==
  Shr(block.btb_vaddr, PAGE_SHIFT)
    + Shl(first_entry, HandleOrder(block.handle))

\* af_xdp_nic_buffer_table_set testing only the first page of the range
BufferTableSetOn_FirstOnly(pages, block, first_entry, n_entries, dma_addrs) ==
  LET order == HandleOrder(block.handle)
      page  == SetFirstPage(block, first_entry)
      total == Shl(n_entries, order)
  IN  IF page > pages.page_count
      THEN [rc |-> -EINVAL, pages |-> pages]
      ELSE [rc |-> 0,
            pages |-> SetLoop(pages, page, dma_addrs, order, 0, total)]

\* af_xdp_nic_buffer_table_set: [rc, pages]
BufferTableSetOn(pages, block, first_entry, n_entries, dma_addrs) ==
  LET order == HandleOrder(block.handle)
      page  == SetFirstPage(block, first_entry)
      total == Shl(n_entries, order)
  IN  IF page + total > pages.page_count
      THEN [rc |-> -EINVAL, pages |-> pages]
      ELSE [rc |-> 0,
            pages |-> SetLoop(pages, page, dma_addrs, order, 0, total)]

\* af_xdp_nic_buffer_table_set(block, first_entry, n_entries, dma_addrs),
\* the addresses being base, base + EntryStride, ...
BufferTableSetCall(block, first_entry, n_entries, base) ==
       LET dma_addrs == [i \in 1..n_entries |->
                           base + (i - 1) * EntryStride]
           owner == HandleOwner(block.handle)
           order == HandleOrder(block.handle)
           page  == SetFirstPage(block, first_entry)
           total == Shl(n_entries, order)
       IN  IF ~PdByOwnerOk(owner)
           THEN /\ call' = [op |-> "buffer_table_set", owner |-> owner,
                            block |-> block, first_entry |-> first_entry,
                            n_entries |-> n_entries,
                            dma_addrs |-> dma_addrs, rc |-> -ENODEV]
                /\ UNCHANGED pdVars
           ELSE /\ setOps[owner] < MaxSets
                /\ \E r \in {BufferTableSetOn(pd[owner].umem, block,
                                               first_entry, n_entries,
                                               dma_addrs)} :
                    /\ TRUE
                    /\ pd' = [pd EXCEPT ![owner].umem = r.pages]
                    /\ setOps' = [setOps EXCEPT ![owner] = @ + 1]
                    /\ lastSet' =
                         IF r.rc < 0 THEN lastSet
                         ELSE [lastSet EXCEPT ![owner] =
                                 [q \in (DOMAIN @) \cup
                                         (page .. page + total - 1) |->
                                    IF q \in page .. page + total - 1
                                    THEN SetAddrAt(dma_addrs, order, q - page)
                                    ELSE @[q]]]
                    /\ call' = [op |-> "buffer_table_set", owner |-> owner,
                                block |-> block,
                                first_entry |-> first_entry,
                                n_entries |-> n_entries,
                                dma_addrs |-> dma_addrs, rc |-> r.rc]
                    /\ hist' = HistAdd(hist, owner,
                                 [op |-> "set", order |-> order,
                                  rc |-> r.rc])
                    /\ UNCHANGED btBlocks

BufferTableSet ==
  /\ CallAlone
  /\ \E block \in btBlocks, first_entry \in FirstEntries,
        n_entries \in 1..MaxEntries, base \in DmaAddrs :
       BufferTableSetCall(block, first_entry, n_entries, base)
  /\ UNCHANGED <<af_xdp, panic, viVars>>

\* af_xdp_nic_buffer_table_set of the first entry of a block
BufferTableSetFirstEntry ==
  /\ CallAlone
  /\ \E block \in btBlocks, base \in DmaAddrs :
       BufferTableSetCall(block, 0, 1, base)
  /\ UNCHANGED <<af_xdp, panic, viVars>>

\* the fault handler runs on the PD's page directory for some page index
FaultAccess ==
  /\ CallAlone
  /\ af_xdp = "live"
  /\ \E owner \in OwnerIds :
     \E page \in FaultPages(pd[owner].umem) :
       LET r == Fault(pd[owner].umem, page)
       IN  call' = [op |-> "fault", owner |-> owner, page |-> page,
                    rc |-> r.rc, addr |-> r.addr]
  /\ UNCHANGED <<af_xdp, panic, pdVars, viVars>>

(***************************************************************************)
(* Virtual interfaces: queue init, activation, release                     *)
(***************************************************************************)
EAGAIN == 11
\* XDP_COPY and XDP_ZEROCOPY bind flags
XDP_COPY == 2
XDP_ZEROCOPY == 4
\* sizeof(struct xdp_desc), sizeof(uint64_t)
XdpDescSize == 16
U64Size == 8

\* inputs of the VI calls
InstanceInputs == -1 .. ViLim
QOwners == {5}
\* owner ids queue-init accepts that resolve to no PD
UnresolvedOwners == {300}
QCaps == {0, 128}
Sizings == {[chunk_size |-> 2048, headroom |-> 0],
            [chunk_size |-> 0, headroom |-> 0],
            [chunk_size |-> 2048, headroom |-> 4096],
            [chunk_size |-> 8192, headroom |-> 0],
            [chunk_size |-> 3000, headroom |-> 0]}
\* what the facility answers in one af_xdp_init: the struct xdp_ring_offset
\* XDP_MMAP_OFFSETS reports, and the kernel addresses of the four rings
\* relative to &vi->kernel_offsets
Facilities ==
  {[layout |-> [producer |-> 0, consumer |-> 64, desc |-> 128],
    kbase |-> [rx |-> 65536, tx |-> 131072, fr |-> 262144, cr |-> 524288]],
   [layout |-> [producer |-> 128, consumer |-> 192, desc |-> 320],
    kbase |-> [rx |-> 524288, tx |-> 262144, fr |-> 131072, cr |-> 65536]]}
\* the page maps a caller passes to af_xdp_init: empty, or holding a page
PageMapInputs ==
  {[n_pages |-> 0, lumps |-> <<>>],
   [n_pages |-> 1, lumps |-> <<[what |-> "caller", n_pages |-> 1]>>]}
\* the steps of af_xdp_init a failure is injected at (0: none)
FailPoints == {0, 1, 2, 3, 4, 5, 6, 10, 13, 19, 23, 24}

\* x | bit for a single-bit value
BitOr(x, bit) == IF (x \div bit) % 2 = 1 THEN x ELSE x + bit

\* the umem of the PD an owner id resolves to (PDs no buffer-table call of
\* the model touches stay as kzalloc left them)
PdUmem(owner_id) ==
  IF owner_id \in OwnerIds THEN pd[owner_id].umem ELSE ZeroUmem

\* efhw_page_map_add_lump / efhw_page_map_add_page
PageMapAddLump(pm, what, n_pages) ==
  [n_pages |-> pm.n_pages + n_pages,
   lumps |-> Append(pm.lumps, [what |-> what, n_pages |-> n_pages])]
\* efhw_page_map_bytes
PageMapBytes(pm) == Shl(pm.n_pages, PAGE_SHIFT)

\* af_xdp_dmaq_tx_q_init on a resolved VI
DmaqTxQInitOn(v, own_id, dmaq_size) ==
  [v EXCEPT !.owner_id = own_id, !.txq_capacity = dmaq_size]

\* af_xdp_dmaq_rx_q_init on a resolved VI
DmaqRxQInitOn(v, own_id, dmaq_size, zerocopy) ==
  [v EXCEPT !.owner_id = own_id, !.rxq_capacity = dmaq_size,
            !.flags = BitOr(@, IF zerocopy THEN XDP_ZEROCOPY ELSE XDP_COPY)]

\* af_xdp_dmaq_tx_q_init(evq_id = instance, own_id, dmaq_size)
TxQInitCall(instance, own_id, dmaq_size) ==
  /\ call' = [op |-> "tx_q_init", instance |-> instance,
              owner |-> own_id, capacity |-> dmaq_size,
              rc |-> IF ViByInstanceOk(instance) THEN 0 ELSE -ENODEV]
  /\ vi' = IF ViByInstanceOk(instance)
           THEN [vi EXCEPT ![instance] =
                   DmaqTxQInitOn(@, own_id, dmaq_size)]
           ELSE vi

TxQInit ==
  /\ CallAlone
  /\ \E instance \in InstanceInputs, own_id \in QOwners, dmaq_size \in QCaps :
       TxQInitCall(instance, own_id, dmaq_size)
  /\ UNCHANGED <<af_xdp, panic, pdVars, xskMap, socks>>

\* af_xdp_dmaq_rx_q_init(evq_id = instance, own_id, dmaq_size, flags)
RxQInitCall(instance, own_id, dmaq_size, zerocopy) ==
  /\ call' = [op |-> "rx_q_init", instance |-> instance,
              owner |-> own_id, capacity |-> dmaq_size,
              zerocopy |-> zerocopy,
              rc |-> IF ViByInstanceOk(instance) THEN 0 ELSE -ENODEV]
  /\ vi' = IF ViByInstanceOk(instance)
           THEN [vi EXCEPT ![instance] =
                   DmaqRxQInitOn(@, own_id, dmaq_size, zerocopy)]
           ELSE vi

\* af_xdp_dmaq_rx_q_init with an owner id that resolves to a PD
RxQInit ==
  /\ CallAlone
  /\ \E instance \in InstanceInputs, own_id \in QOwners, dmaq_size \in QCaps,
        zerocopy \in BOOLEAN :
       RxQInitCall(instance, own_id, dmaq_size, zerocopy)
  /\ UNCHANGED <<af_xdp, panic, pdVars, xskMap, socks>>

\* af_xdp_dmaq_rx_q_init with any owner id: it is stored unvalidated
RxQInitAnyOwner ==
  /\ CallAlone
  /\ \E instance \in InstanceInputs, own_id \in QOwners \cup UnresolvedOwners,
        dmaq_size \in QCaps, zerocopy \in BOOLEAN :
       RxQInitCall(instance, own_id, dmaq_size, zerocopy)
  /\ UNCHANGED <<af_xdp, panic, pdVars, xskMap, socks>>

\* xdp_release_vi without the final memset of the record
XdpReleaseVi_NoMemset(v) == [vi |-> v, closed |-> v.sock]

\* xdp_release_vi: [vi, closed], closed = the socket file fput was called on
XdpReleaseVi(v) == [vi |-> ZeroVi, closed |-> v.sock]

\* fput on the files in fs (0 = no file)
Fput(sk, f) ==
  IF f = 0 THEN sk
  ELSE [sk EXCEPT ![f].state = IF @ = "open" THEN "closed" ELSE "overclosed"]

\* af_xdp_nic_event_queue_disable
QueueDisable ==
  /\ CallAlone
  /\ \E evq \in InstanceInputs :
       IF ViByInstanceOk(evq)
       THEN \E r \in {XdpReleaseVi(vi[evq])} :
              /\ vi' = [vi EXCEPT ![evq] = r.vi]
              /\ socks' = Fput(socks, r.closed)
              /\ call' = [op |-> "queue_disable", instance |-> evq,
                          closed |-> r.closed]
       ELSE /\ call' = [op |-> "queue_disable", instance |-> evq,
                        closed |-> 0]
            /\ UNCHANGED <<vi, socks>>
  /\ UNCHANGED <<af_xdp, panic, pdVars, xskMap>>

\* af_xdp_mem answering NULL for every instance
AfXdpMem_AlwaysNull(instance) ==
  [ptr |-> "NULL", block |-> ZeroOffsets]

\* af_xdp_mem: the kernel_offsets block of the VI, or "NULL"
AfXdpMem(instance) ==
  IF ViByInstanceOk(instance)
  THEN [ptr |-> "kernel_offsets", block |-> vi[instance].kernel_offsets]
  ELSE [ptr |-> "NULL", block |-> ZeroOffsets]

ViMem ==
  /\ CallAlone
  /\ \E instance \in InstanceInputs :
       call' = [op |-> "vi_mem", instance |-> instance,
                ptr |-> AfXdpMem(instance).ptr]
  /\ UNCHANGED <<af_xdp, panic, pdVars, viVars>>

(***************************************************************************)
(* af_xdp_init                                                             *)
(***************************************************************************)
\* the sizing test at the top of af_xdp_init
SizingInvalid(chunk_size, headroom) ==
  \/ chunk_size = 0
  \/ chunk_size < headroom
  \/ chunk_size > PAGE_SIZE
  \/ PAGE_SIZE % chunk_size # 0

\* af_xdp_init looking the VI up before it tests the sizing
InitPrecheck_LookupFirst(instance, chunk_size, headroom) ==
  IF ~ViByInstanceOk(instance) THEN -ENODEV
  ELSE IF SizingInvalid(chunk_size, headroom) THEN -EINVAL
  ELSE IF vi[instance].sock # 0 THEN -EBUSY
  ELSE 0

\* af_xdp_init without the test of vi->sock
InitPrecheck_NoBusy(instance, chunk_size, headroom) ==
  IF SizingInvalid(chunk_size, headroom) THEN -EINVAL
  ELSE IF ~ViByInstanceOk(instance) THEN -ENODEV
  ELSE 0

\* the checks of af_xdp_init made before any resource is acquired:
\* the error returned, 0 to go on
InitPrecheck(instance, chunk_size, headroom) ==
  IF SizingInvalid(chunk_size, headroom) THEN -EINVAL
  ELSE IF ~ViByInstanceOk(instance) THEN -ENODEV
  ELSE IF vi[instance].sock # 0 THEN -EBUSY
  ELSE 0

\* the fallible steps of af_xdp_init, in program order
RingSteps(ring) ==
  <<[step |-> "setsockopt", ring |-> ring], [step |-> "mmap", ring |-> ring],
    [step |-> "pfn", ring |-> ring], [step |-> "add_lump", ring |-> ring]>>

\* af_xdp_init installing and binding the socket ahead of the rings
InitSteps_InstallBeforeRings ==
  <<[step |-> "sock_create", ring |-> "-"],
    [step |-> "alloc_file", ring |-> "-"],
    [step |-> "page_alloc", ring |-> "-"],
    [step |-> "add_page", ring |-> "-"],
    [step |-> "register_umem", ring |-> "-"],
    [step |-> "map_update", ring |-> "-"],
    [step |-> "bind", ring |-> "-"],
    [step |-> "getsockopt", ring |-> "-"]>>
  \o RingSteps("rx") \o RingSteps("tx") \o RingSteps("fr") \o RingSteps("cr")

\* xdp_create_rings provisioning TX ahead of RX
InitSteps_TxBeforeRx ==
  <<[step |-> "sock_create", ring |-> "-"],
    [step |-> "alloc_file", ring |-> "-"],
    [step |-> "page_alloc", ring |-> "-"],
    [step |-> "add_page", ring |-> "-"],
    [step |-> "register_umem", ring |-> "-"],
    [step |-> "getsockopt", ring |-> "-"]>>
  \o RingSteps("tx") \o RingSteps("rx") \o RingSteps("fr") \o RingSteps("cr")
  \o <<[step |-> "map_update", ring |-> "-"],
       [step |-> "bind", ring |-> "-"]>>

InitSteps ==
  <<[step |-> "sock_create", ring |-> "-"],
    [step |-> "alloc_file", ring |-> "-"],
    [step |-> "page_alloc", ring |-> "-"],
    [step |-> "add_page", ring |-> "-"],
    [step |-> "register_umem", ring |-> "-"],
    [step |-> "getsockopt", ring |-> "-"]>>
  \o RingSteps("rx") \o RingSteps("tx") \o RingSteps("fr") \o RingSteps("cr")
  \o <<[step |-> "map_update", ring |-> "-"],
       [step |-> "bind", ring |-> "-"]>>

\* the error a failing step returns
StepErr(s) ==
  IF s.step \in {"sock_create", "alloc_file", "page_alloc", "add_page",
                 "mmap", "add_lump"}
  THEN -ENOMEM
  ELSE IF s.step = "pfn" THEN -EFAULT
  ELSE IF s.step = "map_update" THEN -EAGAIN
  ELSE -EINVAL

\* xdp_create_rings sizing every ring from the rx capacity
RingCapacity_RxForAll(v, ring) == v.rxq_capacity

\* capacity and descriptor size xdp_create_rings passes for each ring
RingCapacity(v, ring) ==
  IF ring \in {"rx", "fr"} THEN v.rxq_capacity ELSE v.txq_capacity
RingDescSize(ring) ==
  IF ring \in {"rx", "tx"} THEN XdpDescSize ELSE U64Size

\* XDP_RX_RING, XDP_TX_RING, XDP_UMEM_FILL_RING and
\* XDP_UMEM_COMPLETION_RING: the facility refuses a ring of zero entries
\* (every other refusal of the facility is an injected failure)
RingSizeOk(capacity) == capacity # 0

\* map_size of xdp_create_ring and the pages of the vma mapping it
RingMapSize(capacity, desc_size, layout) ==
  layout.desc + (capacity + 1) * desc_size
RingPages(map_size) == (map_size + PAGE_SIZE - 1) \div PAGE_SIZE

\* the offset triple relative to a base
RingOffsets(base, layout) ==
  [producer |-> base + layout.producer,
   consumer |-> base + layout.consumer,
   desc |-> base + layout.desc]

\* a step fails: the facility or an allocation refuses
StepFails(st, s, i, env) ==
  \/ env.fail = i
  \/ /\ s.step = "setsockopt"
     /\ ~RingSizeOk(RingCapacity(st.v, s.ring))

\* a step dereferences a PD pointer that pd_by_owner returned as NULL
StepOopses(st, s) ==
  /\ s.step = "register_umem"
  /\ ~PdByOwnerOk(st.v.owner_id)

\* the effect of a step that succeeds
StepApply(st, s, env, id, instance) ==
  IF s.step = "alloc_file"
  THEN [st EXCEPT !.v.sock = id,
                  !.sk = [state |-> "open", inst |-> instance,
                          bound |-> FALSE]]
  ELSE IF s.step = "page_alloc"
  THEN [st EXCEPT !.v.user_offsets_page =
                     [allocated |-> TRUE, offsets |-> ZeroOffsets]]
  ELSE IF s.step = "add_page"
  THEN [st EXCEPT !.pm = PageMapAddLump(@, "offsets_page", 1)]
  ELSE IF s.step = "register_umem"
  THEN [st EXCEPT !.umem_len =
                     Shl(PdUmem(st.v.owner_id).used_page_count, PAGE_SHIFT)]
  ELSE IF s.step = "setsockopt"
  THEN [st EXCEPT !.user_base = Shl(st.pm.n_pages, PAGE_SHIFT)]
  ELSE IF s.step = "add_lump"
  THEN [st EXCEPT
          !.pm = PageMapAddLump(@, s.ring,
                   RingPages(RingMapSize(RingCapacity(st.v, s.ring),
                                         RingDescSize(s.ring), env.layout))),
          !.v.kernel_offsets.rings[s.ring] =
             RingOffsets(env.kbase[s.ring], env.layout),
          !.v.user_offsets_page.offsets.rings[s.ring] =
             RingOffsets(st.user_base, env.layout)]
  ELSE IF s.step = "map_update"
  THEN [st EXCEPT !.xsk = id]
  ELSE IF s.step = "bind"
  THEN [st EXCEPT !.sk.bound = TRUE]
  ELSE st

\* the steps of af_xdp_init from the i-th on
RECURSIVE RunInit(_, _, _, _, _)
RunInit(st, i, env, id, instance) ==
  IF i > Len(InitSteps)
  THEN [st EXCEPT !.rc = 0, !.sock_out = id,
                  !.v.user_offsets_page.offsets.mmap_bytes =
                     PageMapBytes(st.pm)]
  ELSE LET s == InitSteps[i]
           logged == [st EXCEPT !.steps = Append(@, s)]
       IN  IF StepOopses(st, s)
           THEN [logged EXCEPT !.oops = TRUE]
           ELSE IF StepFails(st, s, i, env)
           THEN [logged EXCEPT !.rc = StepErr(s)]
           ELSE RunInit(StepApply(logged, s, env, id, instance),
                        i + 1, env, id, instance)

\* af_xdp_init past its checks, on VI v with the caller's page map pm
AfXdpInitRun(v, pm, xsk, env, id, instance) ==
  RunInit([v |-> v, pm |-> pm, xsk |-> xsk, sk |-> NoSock,
           steps |-> <<>>, rc |-> 0, sock_out |-> 0, oops |-> FALSE,
           umem_len |-> -1, user_base |-> 0],
          1, env, id, instance)

\* the next socket file to be created, 0 when the model's supply is used up
NextSock ==
  IF \E f \in SockIds : socks[f].state = "unused"
  THEN CHOOSE f \in SockIds :
         /\ socks[f].state = "unused"
         /\ \A g \in SockIds : socks[g].state = "unused" => f <= g
  ELSE 0

\* af_xdp_init(instance, chunk_size, headroom, page_map), a step of it
\* failing as one of fails says, on one of the facilities facs
ViInitCall(instance, sz, pm, fails, facs) ==
       LET pre == InitPrecheck(instance, sz.chunk_size, sz.headroom)
       IN  IF pre < 0
           THEN \* a rejected call never reads its page map: one is explored
                /\ pm.n_pages = 1
                /\ call' = [op |-> "vi_init", instance |-> instance,
                            sizing |-> sz, pm |-> pm, pm_out |-> pm,
                            rc |-> pre, steps |-> <<>>, sock_out |-> 0,
                            fail |-> 0]
                /\ UNCHANGED <<viVars, panic>>
           ELSE \E fail \in fails, fac \in facs :
                  LET env == [fail |-> fail, layout |-> fac.layout,
                              kbase |-> fac.kbase]
                      id == NextSock
                  IN  \* without a socket file to hand out, only a run that
                      \* fails before creating one is explored
                      /\ id = 0 => fail \in {1, 2}
                      /\ \E r \in {AfXdpInitRun(vi[instance], pm,
                                                xskMap[instance], env,
                                                id, instance)} :
                           \* the injected failure is the one that happens
                           /\ fail # 0 =>
                                /\ Len(r.steps) = fail
                                /\ r.rc < 0
                           /\ vi' = [vi EXCEPT ![instance] = r.v]
                           /\ xskMap' = [xskMap EXCEPT ![instance] = r.xsk]
                           /\ socks' = IF r.sk.state = "unused" THEN socks
                                       ELSE [socks EXCEPT ![id] = r.sk]
                           /\ panic' = r.oops
                           /\ call' = [op |-> "vi_init",
                                       instance |-> instance,
                                       sizing |-> sz, pm |-> pm,
                                       pm_out |-> r.pm,
                                       rc |-> r.rc, steps |-> r.steps,
                                       sock_out |-> r.sock_out,
                                       fail |-> fail, layout |-> fac.layout,
                                       umem_len |-> r.umem_len]

ViInit ==
  /\ CallAlone
  /\ \E instance \in InstanceInputs, sz \in Sizings, pm \in PageMapInputs :
       ViInitCall(instance, sz, pm, FailPoints, Facilities)
  /\ UNCHANGED <<af_xdp, pdVars>>

(***************************************************************************)
(* The VI specification: hardware init, then any sequence of queue inits,  *)
(* activations, queue disables and vi_mem calls.                           *)
(***************************************************************************)
NextVI ==
  \/ InitHardware
  \/ TxQInit
  \/ RxQInit
  \/ ViInit
  \/ QueueDisable
  \/ ViMem

SpecVI == Init /\ [][NextVI]_vars

(***************************************************************************)
(* Hardware release, and the life of a PD next to the VIs of its owner     *)
(***************************************************************************)
\* af_xdp_dmaq_tx_q_init of a VI for ScenarioOwner
TxQInitScenario ==
  /\ CallAlone
  /\ \E instance \in Instances :
       TxQInitCall(instance, ScenarioOwner, Scenario.capacity)
  /\ UNCHANGED <<af_xdp, panic, pdVars, xskMap, socks>>

\* af_xdp_dmaq_rx_q_init of a VI for ScenarioOwner, in either mode
RxQInitScenario ==
  /\ CallAlone
  /\ \E instance \in Instances, zerocopy \in BOOLEAN :
       RxQInitCall(instance, ScenarioOwner, Scenario.capacity, zerocopy)
  /\ UNCHANGED <<af_xdp, panic, pdVars, xskMap, socks>>

\* af_xdp_init on a VI, no step of it failing
ViInitNoFail ==
  /\ CallAlone
  /\ \E instance \in Instances, pm \in PageMapInputs :
       ViInitCall(instance, [chunk_size |-> 2048, headroom |-> 0], pm,
                  {0}, Facilities)
  /\ UNCHANGED <<af_xdp, pdVars>>

\* af_xdp_nic_release_hardware: the program is detached; if nic->af_xdp is
\* set, the map reference is dropped and the backend state is kfree'd.
\* nic->af_xdp is not cleared, no VI is released and no PD is freed: the
\* socket files, offsets pages and page directories stay as they are.
ReleaseHardware ==
  /\ CallAlone
  /\ af_xdp' = IF af_xdp = "live" THEN "freed" ELSE af_xdp
  /\ call' = [op |-> "release_hardware", kfreed |-> af_xdp = "live"]
  /\ UNCHANGED <<panic, pdVars, viVars>>

\* the operations that resolve a VI or a PD through nic->af_xdp
LaterOps == {"tx_q_init", "rx_q_init", "vi_init", "queue_disable", "vi_mem",
             "buffer_table_alloc", "buffer_table_free", "buffer_table_set"}

\* a VI or buffer-table operation after release_hardware: vi_by_instance and
\* pd_by_owner find nic->af_xdp not NULL and read the freed backend state
\* through it; what the call does with that memory is not explored
UseAfterRelease ==
  /\ ~panic
  /\ af_xdp = "freed"
  /\ \E op \in LaterOps : call' = [op |-> op, lookup |-> "freed"]
  /\ panic' = TRUE
  /\ UNCHANGED <<af_xdp, pdVars, viVars, thr>>

NextLife ==
  \/ InitHardware
  \/ BufferTableAllocNoFail
  \/ BufferTableSetFirstEntry
  \/ BufferTableFree
  \/ TxQInitScenario
  \/ RxQInitScenario
  \/ ViInitNoFail
  \/ ReleaseHardware
  \/ UseAfterRelease

SpecLife == Init /\ [][NextLife]_vars

(***************************************************************************)
(* Two buffer-table calls on the PD of ScenarioOwner made by two threads.  *)
(* The code takes no lock, so the loads and stores of the two calls        *)
(* interleave; a call advances by one load or one store of PD state per    *)
(* step, the value loaded being kept in the thread's reg until it is used. *)
(***************************************************************************)
\* the calls a thread can make: an alloc of some order, the free of a block
ThreadOps(blocks) ==
  {[op |-> "alloc", order |-> n, block |-> NoBlock] : n \in Orders}
    \cup {[op |-> "free", order |-> HandleOrder(b.handle), block |-> b] :
            b \in blocks}

\* pages a buffer_table_alloc of the order grows the page directory by
GrowthOf(order) == Shl(EFHW_BUFFER_TABLE_BLOCK_SIZE, order)

\* one step of af_xdp_nic_buffer_table_alloc in thread state th on PD p:
\* [p, th, out], out = the blocks handed to the caller by the step
AllocStep(p, th) ==
  IF th.pc = "vaddr"
  THEN \* block->btb_vaddr = pd->umem.page_count << PAGE_SHIFT
       [p |-> p,
        th |-> [th EXCEPT !.pc = "size",
                          !.block = [handle |-> HandleOf(ScenarioOwner,
                                                         th.order),
                                     btb_vaddr |-> Shl(p.umem.page_count,
                                                       PAGE_SHIFT)]],
        out |-> {}]
  ELSE IF th.pc = "size"
  THEN \* umem_pages_alloc: blocks = (page_count + new_pages + ...) / ...
       [p |-> p,
        th |-> [th EXCEPT !.pc = "grow",
                          !.blocks = BlocksFor(p.umem, GrowthOf(th.order))],
        out |-> {}]
  ELSE IF th.pc = "grow"
  THEN \* while( pages->block_count < blocks ) blocks[block_count++] = alloc
       IF p.umem.block_count < th.blocks
       THEN [p |-> [p EXCEPT !.umem.blocks = AppendBlocks(@, 1),
                             !.umem.block_count = @ + 1],
             th |-> th, out |-> {}]
       ELSE [p |-> p, th |-> [th EXCEPT !.pc = "read_pages"], out |-> {}]
  ELSE IF th.pc = "read_pages"
  THEN \* pages->page_count += new_pages: the load
       [p |-> p,
        th |-> [th EXCEPT !.pc = "write_pages", !.reg = p.umem.page_count],
        out |-> {}]
  ELSE IF th.pc = "write_pages"
  THEN \* pages->page_count += new_pages: the store
       [p |-> [p EXCEPT !.umem.page_count = th.reg + GrowthOf(th.order)],
        th |-> [th EXCEPT !.pc = "read_count"],
        out |-> {}]
  ELSE IF th.pc = "read_count"
  THEN \* ++pd->buffer_table_count: the load
       [p |-> p,
        th |-> [th EXCEPT !.pc = "write_count",
                          !.reg = p.buffer_table_count],
        out |-> {}]
  ELSE \* ++pd->buffer_table_count: the store; *block_out = block
       [p |-> [p EXCEPT !.buffer_table_count = th.reg + 1],
        th |-> [th EXCEPT !.pc = "done"],
        out |-> {th.block}]

\* one step of xdp_release_pd, called by af_xdp_nic_buffer_table_free, in
\* thread state th on PD p: [p, th, panic]
FreeStep(p, th) ==
  IF th.pc = "check"
  THEN \* BUG_ON(pd->freed_buffer_table_count >= pd->buffer_table_count)
       [p |-> p, th |-> [th EXCEPT !.pc = "read_freed"],
        panic |-> p.freed_buffer_table_count >= p.buffer_table_count]
  ELSE IF th.pc = "read_freed"
  THEN \* ++pd->freed_buffer_table_count: the load
       [p |-> p,
        th |-> [th EXCEPT !.pc = "write_freed",
                          !.reg = p.freed_buffer_table_count],
        panic |-> FALSE]
  ELSE IF th.pc = "write_freed"
  THEN \* the store, and the comparison with buffer_table_count
       [p |-> [p EXCEPT !.freed_buffer_table_count = th.reg + 1],
        th |-> [th EXCEPT !.pc = IF th.reg + 1 # p.buffer_table_count
                                 THEN "done" ELSE "reset"],
        panic |-> FALSE]
  ELSE \* umem_pages_free(&pd->umem); memset(pd, 0, sizeof(*pd))
       [p |-> ZeroPd,
        th |-> [th EXCEPT !.pc = "done", !.reset = TRUE],
        panic |-> FALSE]

\* the two threads enter their calls: each an alloc, or the free of a block
\* of its own (the caller's block is kfree'd on entry to the free)
ThreadsStart ==
  /\ ~panic
  /\ af_xdp = "live"
  /\ \A t \in Threads : thr[t].pc = "idle"
  /\ \E a, b \in ThreadOps({k \in btBlocks :
                              HandleOwner(k.handle) = ScenarioOwner}) :
       LET p == pd[ScenarioOwner]
           allocs == (IF a.op = "alloc" THEN 1 ELSE 0)
                       + (IF b.op = "alloc" THEN 1 ELSE 0)
           growth == (IF a.op = "alloc" THEN GrowthOf(a.order) ELSE 0)
                       + (IF b.op = "alloc" THEN GrowthOf(b.order) ELSE 0)
           enter(c) == [IdleThread EXCEPT
                          !.pc = IF c.op = "alloc" THEN "vaddr" ELSE "check",
                          !.op = c.op, !.order = c.order,
                          !.block = c.block, !.from = p]
       IN  /\ (a.op = "free" /\ b.op = "free") => a.block # b.block
           /\ p.buffer_table_count + allocs <= MaxBlocks
           /\ p.umem.page_count + growth <= MaxPages
           /\ thr' = [t \in Threads |-> IF t = 1 THEN enter(a) ELSE enter(b)]
           /\ btBlocks' = btBlocks \ {c.block : c \in {a, b}}
           /\ call' = [op |-> "threads_start", ops |-> <<a, b>>]
  /\ hist' = -1
  /\ UNCHANGED <<af_xdp, panic, pd, lastSet, setOps, viVars>>

\* a thread in a call makes its next load or store
ThreadStep ==
  /\ ~panic
  /\ \E t \in Threads :
       /\ thr[t].pc \notin {"idle", "done"}
       /\ IF thr[t].op = "alloc"
          THEN \E r \in {AllocStep(pd[ScenarioOwner], thr[t])} :
                 /\ pd' = [pd EXCEPT ![ScenarioOwner] = r.p]
                 /\ thr' = [thr EXCEPT ![t] = r.th]
                 /\ btBlocks' = btBlocks \cup r.out
                 /\ UNCHANGED <<panic, lastSet, setOps>>
          ELSE \E r \in {FreeStep(pd[ScenarioOwner], thr[t])} :
                 /\ pd' = [pd EXCEPT ![ScenarioOwner] = r.p]
                 /\ thr' = [thr EXCEPT ![t] = r.th]
                 /\ panic' = r.panic
                 /\ lastSet' = IF r.th.reset
                               THEN [lastSet EXCEPT
                                       ![ScenarioOwner] = EmptyBlock]
                               ELSE lastSet
                 /\ setOps' = IF r.th.reset
                              THEN [setOps EXCEPT ![ScenarioOwner] = 0]
                              ELSE setOps
                 /\ UNCHANGED btBlocks
       /\ call' = [op |-> "thread_step", thread |-> t]
  /\ UNCHANGED <<af_xdp, hist, viVars>>

NextRace ==
  \/ InitHardware
  \/ BufferTableAllocNoFail
  \/ ThreadsStart
  \/ ThreadStep

SpecRace == Init /\ [][NextRace]_vars

(***************************************************************************)
(* The VI specification with owner ids that resolve to no PD: hardware     *)
(* init, then queue inits with any owner id and activations.               *)
(***************************************************************************)
NextOwn ==
  \/ InitHardware
  \/ TxQInit
  \/ RxQInitAnyOwner
  \/ ViInit

SpecOwn == Init /\ [][NextOwn]_vars

(***************************************************************************)
(* The buffer-table specification: hardware init, then any sequence of     *)
(* buffer-table calls and page faults.                                     *)
(***************************************************************************)
NextBT ==
  \/ InitHardware
  \/ BufferTableAlloc
  \/ BufferTableFree
  \/ BufferTableSet
  \/ FaultAccess

SpecBT == Init /\ [][NextBT]_vars

(***************************************************************************)
(* Properties of the buffer table                                          *)
(***************************************************************************)
\* the step releases the page directory of PD o
PdReleasedInStep(o) ==
  /\ pd[o].umem.page_count > 0
  /\ pd'[o].umem.page_count = 0
  /\ pd'[o].umem.blocks = <<>>

\* the step is the free of the last outstanding block of PD o
LastFreeStep(o) ==
  /\ call'.op = "buffer_table_free"
  /\ call'.owner = o
  /\ call' # call \/ btBlocks' # btBlocks
  /\ pd[o].buffer_table_count > 0
  /\ pd[o].freed_buffer_table_count + 1 = pd[o].buffer_table_count

\* C1: the page directory of a PD is freed (storage released, page_count
\* back to 0) by a step exactly when that step is a buffer_table_free whose
\* increment makes freed_buffer_table_count equal to a positive
\* buffer_table_count; a free right after the alloc of the only block
\* resets the PD.
C1_FreedIffLastFree ==
  [][\A o \in OwnerIds :
       /\ PdReleasedInStep(o) <=> LastFreeStep(o)
       /\ ( /\ call.op = "buffer_table_alloc" /\ call.owner = o
            /\ call.rc = 0
            /\ pd[o].buffer_table_count = 1
            /\ btBlocks' # btBlocks
            /\ call'.op = "buffer_table_free" /\ call'.owner = o )
          => pd'[o] = ZeroPd]_vars

\* a free released the page directory of a PD that had two blocks
C1_Witness ==
  /\ call.op = "buffer_table_free"
  /\ call.released
  /\ call.count = 2
  /\ pd[call.owner] = ZeroPd

\* C2 as stated: two order-2 allocs for owner 5 give buffer_table_count 2;
\* after freeing both, freed_buffer_table_count is 2 and the page
\* directory is empty.
C2_AsStated ==
  /\ hist = 2 => pd[ScenarioOwner].buffer_table_count = 2
  /\ hist = 4 => /\ pd[ScenarioOwner].freed_buffer_table_count = 2
                 /\ pd[ScenarioOwner].umem.page_count = 0
                 /\ pd[ScenarioOwner].umem.blocks = <<>>

\* C2, amended: two order-2 allocs for owner 5 give buffer_table_count 2;
\* the first free makes freed_buffer_table_count 1; the second free resets
\* the PD: the page directory is empty and both counters are back to 0.
C2_ScenarioResets ==
  /\ hist = 2 => /\ pd[ScenarioOwner].buffer_table_count = 2
                 /\ pd[ScenarioOwner].freed_buffer_table_count = 0
                 /\ pd[ScenarioOwner].umem.page_count =
                      2 * Shl(EFHW_BUFFER_TABLE_BLOCK_SIZE, ScenarioOrder)
  /\ hist = 3 => /\ pd[ScenarioOwner].buffer_table_count = 2
                 /\ pd[ScenarioOwner].freed_buffer_table_count = 1
  /\ hist = 4 => pd[ScenarioOwner] = ZeroPd

\* the scenario ran to its end
C2_Witness ==
  /\ hist = 4
  /\ call.op = "buffer_table_free"
  /\ btBlocks = {}

RejectedWith(e) ==
  /\ call'.rc = e
  /\ call'.steps = <<>>
  /\ call'.sock_out = 0
  /\ call'.pm_out = call'.pm
  /\ UNCHANGED <<vi, xskMap, socks>>

\* C4: vi_init with chunk_size = 0, headroom > chunk_size, chunk_size above
\* the page size or chunk_size not dividing the page size returns -EINVAL
\* before anything else: no socket is created, and the VI record, the page
\* map and the redirect map are unchanged, whatever the VI's state and
\* whether or not the instance exists.
C4_InvalidSizingRejected ==
  [][( /\ call'.op = "vi_init"
       /\ SizingInvalid(call'.sizing.chunk_size, call'.sizing.headroom) )
     => RejectedWith(-EINVAL)]_vars

\* an invalid sizing was rejected on a VI that is bound to its queue
C4_Witness ==
  /\ call.op = "vi_init"
  /\ call.rc = -EINVAL
  /\ call.sizing.chunk_size = 3000
  /\ ViByInstanceOk(call.instance)
  /\ vi[call.instance].sock # 0
  /\ socks[vi[call.instance].sock].bound

\* the socket files instance i holds open
OpenSocks(i) ==
  {f \in SockIds : socks[f].state = "open" /\ socks[f].inst = i}

\* a VI holds at most one open socket file, the one its record names
OneHandle ==
  \A i \in Instances :
    OpenSocks(i) = IF vi[i].sock = 0 THEN {} ELSE {vi[i].sock}

\* C5: vi_init with valid sizing on a VI that holds a socket file returns
\* -EBUSY and changes nothing (no second socket, VI record, page map and
\* redirect map unchanged); so at every moment a VI holds at most one open
\* socket file.
C5_BusyRejected ==
  [][/\ ( /\ call'.op = "vi_init"
          /\ ~SizingInvalid(call'.sizing.chunk_size, call'.sizing.headroom)
          /\ ViByInstanceOk(call'.instance)
          /\ vi[call'.instance].sock # 0 )
        => RejectedWith(-EBUSY)
     /\ OneHandle']_vars

\* a VI left half-activated by a failed vi_init refused a second vi_init
C5_Witness ==
  /\ call.op = "vi_init"
  /\ call.rc = -EBUSY
  /\ vi[call.instance].sock # 0
  /\ ~socks[vi[call.instance].sock].bound
  /\ OpenSocks(call.instance) = {vi[call.instance].sock}

\* the last call was an af_xdp_init that succeeded
Activated ==
  /\ call.op = "vi_init"
  /\ call.rc = 0

\* the rings in the order their lumps were appended to the page map
RECURSIVE LumpRings(_)
LumpRings(steps) ==
  IF steps = <<>> THEN <<>>
  ELSE IF Head(steps).step = "add_lump"
       THEN <<Head(steps).ring>> \o LumpRings(Tail(steps))
       ELSE LumpRings(Tail(steps))

\* pages of the first n lumps of a page map
RECURSIVE LumpPages(_, _)
LumpPages(lumps, n) ==
  IF n = 0 THEN 0 ELSE lumps[n].n_pages + LumpPages(lumps, n - 1)

\* index of the lump a ring was given in a page map
LumpIndex(pm, ring) ==
  CHOOSE k \in 1 .. Len(pm.lumps) : pm.lumps[k].what = ring

\* byte total of the page map just before the ring's lump was appended
BytesBeforeLump(pm, ring) ==
  Shl(LumpPages(pm.lumps, LumpIndex(pm, ring) - 1), PAGE_SHIFT)

\* the offset triples of a block increase strictly from a ring to the next
TriplesIncrease(rings) ==
  \A k \in 1 .. 3 :
    LET a == rings[RingKinds[k]]
        b == rings[RingKinds[k + 1]]
    IN  /\ a.producer < b.producer
        /\ a.consumer < b.consumer
        /\ a.desc < b.desc

\* the user-visible offsets block on the offsets page of a VI
UserOffsets(i) == vi[i].user_offsets_page.offsets

\* C6: in a successful activation the rings are provisioned in the order
\* RX, TX, fill, completion; each ring's user-visible offsets are the
\* facility's offsets plus the page map's byte total just before that
\* ring's lump was appended, so they increase strictly from RX to TX to
\* fill to completion; the mmap_bytes recorded at the end is the page map's
\* total byte size.
C6_RingOrderAndOffsets ==
  Activated =>
    LET u == UserOffsets(call.instance)
    IN  /\ LumpRings(call.steps) = RingKinds
        /\ \A k \in 1 .. 4 :
             u.rings[RingKinds[k]] =
               RingOffsets(BytesBeforeLump(call.pm_out, RingKinds[k]),
                           call.layout)
        /\ \A k \in 1 .. 3 :
             BytesBeforeLump(call.pm_out, RingKinds[k]) <
               BytesBeforeLump(call.pm_out, RingKinds[k + 1])
        /\ TriplesIncrease(u.rings)
        /\ u.mmap_bytes = PageMapBytes(call.pm_out)

\* an activation succeeded on a page map that already held a page, with the
\* facility's second ring layout
C6_Witness ==
  /\ Activated
  /\ call.pm.n_pages = 1
  /\ call.layout.producer = 128
  /\ UserOffsets(call.instance).rings.rx.producer = Shl(2, PAGE_SHIFT) + 128
  /\ UserOffsets(call.instance).mmap_bytes = Shl(6, PAGE_SHIFT)

\* the scenario of C7: VI 0 configured with owner 5, rx and tx capacity 128,
\* then activated with chunk size 2048 and headroom 0
Scenario7 ==
  /\ Activated
  /\ call.instance = 0
  /\ call.sizing = [chunk_size |-> 2048, headroom |-> 0]
  /\ vi[0].owner_id = 5
  /\ vi[0].rxq_capacity = 128
  /\ vi[0].txq_capacity = 128

\* bytes of the offsets page and of the four rings' mappings
Scenario7Bytes ==
  PAGE_SIZE
  + Shl(RingPages(RingMapSize(128, XdpDescSize, call.layout)), PAGE_SHIFT)
  + Shl(RingPages(RingMapSize(128, XdpDescSize, call.layout)), PAGE_SHIFT)
  + Shl(RingPages(RingMapSize(128, U64Size, call.layout)), PAGE_SHIFT)
  + Shl(RingPages(RingMapSize(128, U64Size, call.layout)), PAGE_SHIFT)

\* C7 as stated: after the scenario the block vi_mem(0) returns is non-null,
\* its four ring offset triples increase strictly and its mmap_bytes is the
\* offsets-page size plus the four rings' mapped sizes.
C7_AsStated ==
  Scenario7 =>
    /\ AfXdpMem(0).ptr # "NULL"
    /\ TriplesIncrease(AfXdpMem(0).block.rings)
    /\ AfXdpMem(0).block.mmap_bytes = Scenario7Bytes

\* C7, amended: after the scenario vi_mem(0) returns the non-null
\* kernel-visible block, whose mmap_bytes is never written (0); it is the
\* user-visible block on the offsets page whose four ring offset triples
\* increase strictly and whose mmap_bytes is the bytes the page map held
\* before the call plus the offsets-page size plus the four rings' mapped
\* sizes.
C7_UserBlockHoldsSizes ==
  Scenario7 =>
    /\ AfXdpMem(0).ptr = "kernel_offsets"
    /\ AfXdpMem(0).block = vi[0].kernel_offsets
    /\ AfXdpMem(0).block.mmap_bytes = 0
    /\ TriplesIncrease(UserOffsets(0).rings)
    /\ UserOffsets(0).mmap_bytes = PageMapBytes(call.pm) + Scenario7Bytes

\* the scenario ran on an empty page map: five pages are mapped, and the
\* kernel-visible ring offsets are in descending order
C7_Witness ==
  /\ Scenario7
  /\ call.pm = EmptyMap
  /\ UserOffsets(0).mmap_bytes = 20480
  /\ vi[0].kernel_offsets.rings.rx.producer >
       vi[0].kernel_offsets.rings.cr.producer

\* the stage of af_xdp_init a step belongs to: 1 acquire the socket,
\* 2 allocate and publish the offsets page, 3 register the memory,
\* 4 provision the rings, 5 install in the redirect map, 6 bind
Stage(s) ==
  IF s.step \in {"sock_create", "alloc_file"} THEN 1
  ELSE IF s.step \in {"page_alloc", "add_page"} THEN 2
  ELSE IF s.step = "register_umem" THEN 3
  ELSE IF s.step = "map_update" THEN 5
  ELSE IF s.step = "bind" THEN 6
  ELSE 4

\* the positions of the steps of call record c that ran and succeeded
DoneAt(c) ==
  {k \in 1 .. Len(c.steps) : c.rc < 0 => k < Len(c.steps)}
\* a step named name ran and succeeded in call record c
Done(c, name) == \E k \in DoneAt(c) : c.steps[k].step = name
\* the rings whose lump was appended in call record c
DoneLumps(c) == {k \in DoneAt(c) : c.steps[k].step = "add_lump"}

\* C8: the steps of vi_init run in the order: acquire the socket, allocate
\* and publish the offsets page, register the memory, provision the four
\* rings, install the socket in the redirect map at the instance index,
\* bind. A failing step ends the call with its error: no later step has run
\* (the redirect map is updated and the socket bound only after all four
\* rings), no socket is handed to the caller, and what the earlier steps
\* set (socket in the VI record, offsets page, page-map lumps, redirect-map
\* entry) stays in place.
C8_StepsInOrderNoRollback ==
  [][( /\ call'.op = "vi_init" /\ call'.steps # <<>> ) =>
      LET c == call'
          i == c.instance
          n == Len(c.steps)
      IN  /\ Stage(c.steps[1]) = 1
          /\ \A k \in 1 .. n - 1 :
               Stage(c.steps[k + 1]) - Stage(c.steps[k]) \in {0, 1}
          /\ c.rc <= 0
          /\ c.rc = 0 => /\ Stage(c.steps[n]) = 6
                          /\ c.sock_out # 0
                          /\ c.sock_out = vi'[i].sock
          /\ c.rc < 0 => /\ c.rc = StepErr(c.steps[n])
                          /\ c.sock_out = 0
          /\ Done(c, "map_update") => Cardinality(DoneLumps(c)) = 4
          /\ Done(c, "bind") => Done(c, "map_update")
          /\ IF Done(c, "alloc_file")
             THEN /\ vi'[i].sock \in SockIds
                  /\ socks[vi'[i].sock].state = "unused"
                  /\ socks'[vi'[i].sock].state = "open"
                  /\ socks'[vi'[i].sock].bound = Done(c, "bind")
                  /\ \A f \in SockIds \ {vi'[i].sock} : socks'[f] = socks[f]
             ELSE /\ vi'[i].sock = 0
                  /\ socks' = socks
          /\ xskMap' = IF Done(c, "map_update")
                        THEN [xskMap EXCEPT ![i] = vi'[i].sock]
                        ELSE xskMap
          /\ vi'[i].user_offsets_page.allocated = Done(c, "page_alloc")
          /\ Len(c.pm_out.lumps) =
               Len(c.pm.lumps) + Cardinality(DoneLumps(c))
               + (IF Done(c, "add_page") THEN 1 ELSE 0)
          /\ \A k \in 1 .. Len(c.pm.lumps) :
               c.pm_out.lumps[k] = c.pm.lumps[k]
          /\ \A k \in DoneLumps(c) :
               vi'[i].user_offsets_page.offsets.rings[c.steps[k].ring].desc
                 >= PAGE_SIZE
     ]_vars

\* the redirect-map update failed after all four rings were provisioned:
\* the socket stays in the VI record, open and unbound, the rings stay in
\* the page map and the redirect map was not written
C8_Witness ==
  /\ call.op = "vi_init"
  /\ call.rc = -EAGAIN
  /\ Len(call.steps) = 23
  /\ call.sock_out = 0
  /\ vi[call.instance].sock # 0
  /\ socks[vi[call.instance].sock].state = "open"
  /\ ~socks[vi[call.instance].sock].bound
  /\ xskMap[call.instance] = 0
  /\ Len(call.pm_out.lumps) = Len(call.pm.lumps) + 5

\* C9: queue-disable on a VI in any state leaves its record fully zeroed
\* (no socket, owner 0, capacities 0, flags 0, offsets cleared, offsets
\* page gone) and closes the socket file exactly once if the record held
\* one; on a VI already zeroed it changes nothing; after it vi_init on that
\* VI passes the busy test.
C9_DisableZeroesAndClosesOnce ==
  [][( /\ call'.op = "queue_disable"
       /\ ViByInstanceOk(call'.instance) ) =>
      LET i == call'.instance
      IN  /\ vi' = [vi EXCEPT ![i] = ZeroVi]
          /\ call'.closed = vi[i].sock
          /\ IF vi[i].sock # 0
             THEN /\ socks[vi[i].sock].state = "open"
                  /\ socks' = [socks EXCEPT ![vi[i].sock].state = "closed"]
             ELSE socks' = socks
          /\ vi[i] = ZeroVi => UNCHANGED <<vi, xskMap, socks>>
          /\ \A j \in Instances, sz \in Sizings :
               j = i => InitPrecheck(j, sz.chunk_size, sz.headroom)' # -EBUSY
     ]_vars

\* queue-disable closed the socket file of a VI that was bound to its queue
C9_Witness ==
  /\ call.op = "queue_disable"
  /\ call.closed # 0
  /\ socks[call.closed].state = "closed"
  /\ socks[call.closed].bound
  /\ vi[call.instance] = ZeroVi

C11_InvalidInstanceAbsent ==
  [][( /\ call'.op \in {"vi_mem", "rx_q_init", "tx_q_init", "vi_init"}
       /\ (call'.instance \notin Instances \/ af_xdp = "null")
       /\ call'.op = "vi_init" =>
            ~SizingInvalid(call'.sizing.chunk_size, call'.sizing.headroom) )
     => /\ call'.op = "vi_mem" => call'.ptr = "NULL"
        /\ call'.op # "vi_mem" => call'.rc = -ENODEV
        /\ UNCHANGED <<vi, xskMap, socks>>]_vars

\* a negative instance was refused by vi_init on initialised hardware
C11_Witness ==
  /\ af_xdp = "live"
  /\ call.op = "vi_init"
  /\ call.instance = -1
  /\ call.sizing.chunk_size = 2048
  /\ call.rc = -ENODEV

(***************************************************************************)
(* Properties of buffer-table allocation and set                           *)
(***************************************************************************)
\* the pages a buffer-table block covers
BlockPages(b) ==
  LET first == Shr(b.btb_vaddr, PAGE_SHIFT)
  IN  first .. first + Shl(EFHW_BUFFER_TABLE_BLOCK_SIZE,
                           HandleOrder(b.handle)) - 1

\* the step is a buffer_table_alloc on PD o that succeeded
AllocOk(o) ==
  /\ call'.op = "buffer_table_alloc"
  /\ call'.slot = o
  /\ call'.rc = 0

\* C12: a successful buffer_table_alloc(owner, order) grows page_count by
\* exactly EFHW_BUFFER_TABLE_BLOCK_SIZE << order and buffer_table_count by
\* 1, returns a block whose btb_vaddr is the page_count before the growth
\* in bytes, and keeps every slot written before; page_count changes in no
\* other way than by these growths and the reset to 0, and the blocks
\* outstanding cover pairwise disjoint page ranges inside [0, page_count).
C12_AllocGrowsByBlock ==
  [][\A o \in OwnerIds :
       /\ AllocOk(o) =>
            LET old == pd[o]
                new == pd'[o]
                grow == Shl(EFHW_BUFFER_TABLE_BLOCK_SIZE, call'.order)
            IN  /\ new.umem.page_count = old.umem.page_count + grow
                /\ new.buffer_table_count = old.buffer_table_count + 1
                /\ new.freed_buffer_table_count =
                     old.freed_buffer_table_count
                /\ new.umem.used_page_count = old.umem.used_page_count
                /\ call'.blocks =
                     {[handle |-> HandleOf(o, call'.order),
                       btb_vaddr |-> old.umem.page_count * PAGE_SIZE]}
                /\ btBlocks' = btBlocks \cup call'.blocks
                /\ \A k \in 1 .. Len(old.umem.blocks) :
                     new.umem.blocks[k] = old.umem.blocks[k]
                /\ \A q \in DOMAIN lastSet[o] :
                     UmemPagesGetAddr(new.umem, q) = lastSet[o][q]
       /\ pd'[o].umem.page_count # pd[o].umem.page_count =>
            \/ AllocOk(o)
            \/ /\ call'.op = "buffer_table_free"
               /\ pd'[o] = ZeroPd
       /\ \A b1 \in btBlocks', b2 \in btBlocks' :
            /\ BlockPages(b1) \subseteq 0 .. pd'[o].umem.page_count - 1
            /\ b1 # b2 => BlockPages(b1) \cap BlockPages(b2) = {}
    ]_vars

\* a second block was allocated behind a first one that set had written to
C12_Witness ==
  /\ call.op = "buffer_table_alloc"
  /\ call.owner \in OwnerIds
  /\ call.rc = 0
  /\ call.order = 5
  /\ pd[call.owner].buffer_table_count = 2
  /\ setOps[call.owner] > 0
  /\ \E b \in call.blocks : b.btb_vaddr = 128 * PAGE_SIZE
  /\ pd[call.owner].umem.page_count = 128 + 1024

\* first page and number of pages a buffer_table_set call record addresses
SetFirst(c) ==
  (c.block.btb_vaddr \div PAGE_SIZE)
    + c.first_entry * (2 ^ HandleOrder(c.block.handle))
SetCount(c) == c.n_entries * (2 ^ HandleOrder(c.block.handle))

Outstanding(o) == {b \in btBlocks : HandleOwner(b.handle) = o}

\* C15: in every reachable state of every PD,
\* 0 <= freed_buffer_table_count <= buffer_table_count, and the blocks
\* still outstanding are the difference of the two counters, so the free
\* of an outstanding block never reaches the BUG_ON of xdp_release_pd.
C15_FreedNeverAboveCount ==
  /\ \A o \in OwnerIds :
       /\ 0 <= pd[o].freed_buffer_table_count
       /\ pd[o].freed_buffer_table_count <= pd[o].buffer_table_count
       /\ Cardinality(Outstanding(o)) =
            pd[o].buffer_table_count - pd[o].freed_buffer_table_count
  /\ call.op = "buffer_table_free" => ~panic

\* one of two blocks was freed: the PD counts 2 blocks, 1 freed
C15_Witness ==
  /\ call.op = "buffer_table_free"
  /\ ~call.released
  /\ pd[call.owner].buffer_table_count = 2
  /\ pd[call.owner].freed_buffer_table_count = 1
  /\ Cardinality(Outstanding(call.owner)) = 1

\* C16: in every reachable state of a page directory, every page index
\* below used_page_count holds a handle written by buffer_table_set since
\* the last reset, never an unwritten (NULL) slot.
C16_AsStated ==
  \A o \in OwnerIds :
    \A q \in 0 .. pd[o].umem.used_page_count - 1 :
      /\ q \in DOMAIN lastSet[o]
      /\ UmemPagesGetAddr(pd[o].umem, q) = lastSet[o][q]
      /\ UmemPagesGetAddr(pd[o].umem, q) # 0

\* block_count is the number of storage blocks allocated: umem_pages_free
\* kfrees each of them once
BlocksTracked(pages) == pages.block_count = Len(pages.blocks)

\* C17: when buffer_table_alloc fails with -ENOMEM (at the block, at the
\* block-pointer array or at any storage block), page_count,
\* buffer_table_count and freed_buffer_table_count are unchanged, no block
\* is handed out, the storage blocks allocated before stay in place, and
\* block_count is exactly the number of storage blocks allocated, so the
\* free of the page directory releases each of them once.
C17_FailedAllocStaysConsistent ==
  [][\A o \in OwnerIds :
       /\ ( /\ call'.op = "buffer_table_alloc"
            /\ call'.slot = o
            /\ call'.rc = -ENOMEM )
          => /\ pd'[o].umem.page_count = pd[o].umem.page_count
             /\ pd'[o].umem.used_page_count = pd[o].umem.used_page_count
             /\ pd'[o].buffer_table_count = pd[o].buffer_table_count
             /\ pd'[o].freed_buffer_table_count =
                  pd[o].freed_buffer_table_count
             /\ call'.blocks = {}
             /\ btBlocks' = btBlocks
             /\ Len(pd'[o].umem.blocks) >= Len(pd[o].umem.blocks)
             /\ \A k \in 1 .. Len(pd[o].umem.blocks) :
                  pd'[o].umem.blocks[k] = pd[o].umem.blocks[k]
       /\ BlocksTracked(pd'[o].umem)
       /\ PdReleasedInStep(o) => BlocksTracked(pd[o].umem)
    ]_vars

\* the second storage block of an order-5 allocation could not be
\* allocated: the first one stays, tracked, and no page was added
C17_Witness ==
  /\ call.op = "buffer_table_alloc"
  /\ call.owner \in OwnerIds
  /\ call.rc = -ENOMEM
  /\ call.fail = "kzalloc2"
  /\ pd[call.owner].umem.block_count = 1
  /\ Len(pd[call.owner].umem.blocks) = 1
  /\ pd[call.owner].umem.page_count = 0

\* the page indexes whose slot of a page directory was ever written
WrittenPages(pages) ==
  UNION {{(k - 1) * UMEM_BLOCK + off : off \in DOMAIN pages.blocks[k]} :
           k \in 1 .. Len(pages.blocks)}

\* C18: a successful buffer_table_set(block, first_entry, n_entries, addrs)
\* writes exactly the pages base + (first_entry << order) ..
\* base + ((first_entry + n_entries) << order) - 1 of the owner's page
\* directory, base being the block's btb_vaddr in pages: page
\* base + ((first_entry + i) << order) + j receives addrs[i] + j * PAGE_SIZE
\* for 0 <= i < n_entries and 0 <= j < 2^order; no other slot changes.
C18_SetWritesExactlyItsRange ==
  [][( /\ call'.op = "buffer_table_set"
       /\ call'.rc = 0 ) =>
      LET c == call'
          o == c.owner
          order == HandleOrder(c.block.handle)
          base == c.block.btb_vaddr \div PAGE_SIZE
          old == pd[o].umem
          new == pd'[o].umem
          range == SetFirst(c) .. SetFirst(c) + SetCount(c) - 1
      IN  /\ \A i \in 0 .. c.n_entries - 1 :
               \A j \in 0 .. (2 ^ order) - 1 :
                 LET q == base + (c.first_entry + i) * (2 ^ order) + j
                 IN  /\ q \in range
                     /\ UmemPagesGetAddr(new, q) =
                          c.dma_addrs[i + 1] + j * PAGE_SIZE
          /\ Cardinality(range) = c.n_entries * (2 ^ order)
          /\ WrittenPages(new) = WrittenPages(old) \cup range
          /\ \A q \in WrittenPages(old) \ range :
               UmemPagesGetAddr(new, q) = UmemPagesGetAddr(old, q)
          /\ new.page_count = old.page_count
          /\ new.block_count = old.block_count
          /\ Len(new.blocks) = Len(old.blocks)
          /\ \A p \in OwnerIds \ {o} : pd'[p] = pd[p]
     ]_vars

\* two entries of the second block were set: eight pages from page 128 on
C18_Witness ==
  /\ call.op = "buffer_table_set"
  /\ call.rc = 0
  /\ call.n_entries = 2
  /\ call.first_entry = 0
  /\ call.block.btb_vaddr = 128 * PAGE_SIZE
  /\ HandleOrder(call.block.handle) = 2
  /\ UmemPagesGetAddr(pd[call.owner].umem, 135) =
       call.dma_addrs[2] + 3 * PAGE_SIZE

\* C19: a PD is resolved only for owner ids in [0, MAX_PDS):
\* buffer_table_alloc and buffer_table_set given any other owner, MAX_PDS
\* itself included, return -ENODEV, and no call reads or writes a PD slot
\* outside the MAX_PDS slots init_hardware allocated.
C19_AsStated ==
  /\ ( /\ call.op \in {"buffer_table_alloc", "buffer_table_set"}
       /\ call.owner \notin 0 .. (MAX_PDS - 1) )
     => call.rc = -ENODEV
  /\ call.op = "buffer_table_alloc"
     => (call.slot = -1 \/ call.slot \in 0 .. (MAX_PDS - 1))

\* C20: vi_init on a VI whose recorded owner id resolves to no PD fails
\* with an error before a socket is acquired, and never goes on to register
\* memory from the absent PD.
C20_AsStated ==
  ( /\ call.op = "vi_init"
    /\ call.instance \in Instances
    /\ af_xdp = "live"
    /\ ~SizingInvalid(call.sizing.chunk_size, call.sizing.headroom)
    /\ call.rc # -EBUSY
    /\ ~PdByOwnerOk(vi[call.instance].owner_id) )
  => /\ call.rc < 0
     /\ vi[call.instance].sock = 0
     /\ \A k \in 1 .. Len(call.steps) :
          call.steps[k].step # "register_umem"
     /\ ~panic

\* C23: after a successful buffer_table_set that writes pages [a, b) of a
\* page directory, used_page_count >= b: every page written is below the
\* high-water mark, so the fault handler resolves it.
C23_AsStated ==
  ( /\ call.op = "buffer_table_set"
    /\ call.rc = 0 )
  => /\ pd[call.owner].umem.used_page_count >=
          SetFirst(call) + SetCount(call)
     /\ \A q \in SetFirst(call) .. SetFirst(call) + SetCount(call) - 1 :
          Fault(pd[call.owner].umem, q).rc = "0"

\* the other outstanding blocks of the PD a buffer_table_set call addressed
OtherBlocks(c) ==
  {b \in btBlocks : HandleOwner(b.handle) = c.owner /\ b # c.block}

\* the slots of the pages in S hold the same in both page directories
SameSlots(old, new, S) ==
  \A q \in S : UmemPagesGetAddr(new, q) = UmemPagesGetAddr(old, q)

C25_AsStated ==
  /\ \A i \in Instances : vi[i].flags \in {0, XDP_COPY, XDP_ZEROCOPY}
  /\ ( /\ call.op = "rx_q_init"
       /\ call.rc = 0 )
     => vi[call.instance].flags =
          (IF call.zerocopy THEN XDP_ZEROCOPY ELSE XDP_COPY)

\* C26: while a VI holds a control handle (vi->sock), rx_q_init and tx_q_init
\* do not change its owner id, its capacities or its flags.
C26_AsStated ==
  [][\A i \in Instances :
       ( /\ vi[i].sock # 0
         /\ call'.op \in {"rx_q_init", "tx_q_init"} )
       => /\ vi'[i].owner_id = vi[i].owner_id
          /\ vi'[i].rxq_capacity = vi[i].rxq_capacity
          /\ vi'[i].txq_capacity = vi[i].txq_capacity
          /\ vi'[i].flags = vi[i].flags
    ]_vars

(***************************************************************************)
(* Properties of teardown                                                  *)
(***************************************************************************)
\* C21: a PD is never reset (its page directory freed, its counters zeroed)
\* while a VI whose owner id names that PD holds a control handle: no
\* buffer_table_free releases the PD of an activated VI.
C21_AsStated ==
  ( /\ af_xdp = "live"
    /\ call.op = "buffer_table_free"
    /\ call.released )
  => ~\E i \in Instances :
        /\ vi[i].sock # 0
        /\ socks[vi[i].sock].bound
        /\ vi[i].owner_id = call.owner

\* C27: after release_hardware nothing of the backend remains: no VI holds
\* a control handle or an offsets page, no socket file is left open, no PD
\* holds page-directory storage, nic->af_xdp no longer refers to the freed
\* state, and every later VI or buffer-table operation finds no device.
C27_AsStated ==
  /\ call.op = "release_hardware"
     => /\ af_xdp = "null"
        /\ \A i \in Instances :
             /\ vi[i].sock = 0
             /\ ~vi[i].user_offsets_page.allocated
        /\ \A f \in SockIds : socks[f].state # "open"
        /\ \A o \in OwnerIds : pd[o].umem.blocks = <<>>
  /\ ( /\ af_xdp = "freed"
       /\ call.op \in LaterOps )
     => call.lookup = "null"

(***************************************************************************)
(* Properties of buffer-table calls made by two threads                    *)
(***************************************************************************)
\* what a thread's call yields when it runs alone on PD p: the PD after it,
\* the block it returned or freed, whether it reset the PD
RunAlone(p, th) ==
  IF th.op = "alloc"
  THEN LET r == BufferTableAllocOn(p, ScenarioOwner, th.order, "none")
       IN  [pd |-> r.pd, block |-> CHOOSE k \in r.blocks : TRUE,
            reset |-> FALSE]
  ELSE LET r == XdpReleasePd(p)
       IN  [pd |-> r.pd, block |-> th.block, reset |-> r.released]

\* the calls of the threads t then u, one after the other, give the PD and
\* the results the two threads ended with
SerialOrderGives(t, u) ==
  LET first == RunAlone(thr[t].from, thr[t])
      second == RunAlone(first.pd, thr[u])
  IN  /\ pd[ScenarioOwner] = second.pd
      /\ thr[t].block = first.block
      /\ thr[t].reset = first.reset
      /\ thr[u].block = second.block
      /\ thr[u].reset = second.reset

\* both threads have returned from their calls
ThreadsDone ==
  /\ call.op = "thread_step"
  /\ ~panic
  /\ \A t \in Threads : thr[t].pc = "done"

\* C22: when two buffer-table operations on the same PD are run by two
\* threads with their reads and writes of page_count, block storage,
\* buffer_table_count and freed_buffer_table_count interleaved, the outcome
\* equals that of some serial order: the blocks returned, the PD's counters
\* and page directory, and whether and by whom the PD was reset.
C22_AsStated ==
  ThreadsDone => (SerialOrderGives(1, 2) \/ SerialOrderGives(2, 1))

====
